---- MODULE Spec2Model ----
(***************************************************************************)
(* Button/switch edge-capture subsystem of board_diag.c: the button PIO    *)
(* (edge-capture register, interrupt mask), the interrupt handler          *)
(* handle_button_interrupts, init_button_pio / disable_button_pio and the  *)
(* polling loop of TestButtons.                                            *)
(*                                                                         *)
(* Two contexts run: the foreground (pc) and the interrupt handler (hpc).  *)
(* While the handler runs the foreground is preempted.  Every access to    *)
(* the shared volatile edge_capture and to a PIO register is a step of its *)
(* own; statements that touch only locals of TestButtons and stdout are    *)
(* folded into the step of the shared access they follow.                  *)
(***************************************************************************)
EXTENDS Integers, Sequences, FiniteSets, TLC

VARIABLES
  edge_capture,    \* volatile int edge_capture (line 58)
  edge_cap_reg,    \* button PIO edge-capture register
  irq_mask_reg,    \* button PIO interrupt-mask register
  isr,             \* handler registered for BUTTON_PIO_IRQ, or "NULL"
  isr_context,     \* context registered with it, or "NULL"
  buttons_tested,  \* alt_u8 buttons_tested (local of TestButtons)
  last_tested,     \* int last_tested (local of TestButtons)
  pc,              \* foreground position (source line about to execute)
  hpc,             \* handler position ("idle" when not running)
  log,             \* lines printed by the current TestButtons invocation
  iter,            \* at the loop test: how the previous iteration ended
                   \* ("none", "suppressed", "dispatched"); else "running"
  run,             \* number of TestButtons invocations started
  edges,           \* button edges latched since TestButtons was entered, up
                   \* to the exit of its loop
  hctx,            \* the running handler's `context` argument
  observed,        \* single-line values the switch has dispatched on, this run
  switch_val,      \* at the loop test: value read by the switch of the
                   \* iteration just ended (-1: none)
  order,           \* lines in the order the switch first dispatched on them
  last_hw,         \* register value read by the latest handler run since
                   \* edge_capture was last zeroed (0: none)
  unread,          \* handler stores between two foreground reads of
                   \* edge_capture (counted up to 2)
  pressed,         \* lines with an edge latched since TestButtons was
                   \* entered, up to the exit of its loop
  ch,              \* static char ch of MenuEnd (line 130)
  entered          \* the key entered at the prompt on which TopMenu
                   \* returned (-1 while it has not returned)

vars == <<edge_capture, edge_cap_reg, irq_mask_reg, isr, isr_context,
          buttons_tested, last_tested, pc, hpc, log, iter, run, edges,
          hctx, observed, switch_val, order, last_hw, unread, pressed,
          ch, entered>>

\* ---------------------------------------------------------------- bounds
MaxRuns == 2
MaxEdges == 4

\* ------------------------------------------------------------- constants
NumLines == 4
all_tested == 15
IrqMaskAll == 15
\* last_tested = 0xffff;
\* Variant: the start value is 0xf, a value the store can hold.
Sentinel_inrange == all_tested
Sentinel == 65535

Lines == 1..NumLines

\* Values an uninitialised local may hold on entry to TestButtons.
StackU8 == {0, 15, 255}
StackInt == {0, 65535}

\* ------------------------------------------------------------ bit helpers
RECURSIVE BitAnd(_, _)
BitAnd(a, b) ==
  IF a = 0 \/ b = 0 THEN 0
  ELSE (a % 2) * (b % 2) + 2 * BitAnd(a \div 2, b \div 2)

RECURSIVE BitOr(_, _)
BitOr(a, b) ==
  IF a = 0 THEN b
  ELSE IF b = 0 THEN a
  ELSE (IF a % 2 = 1 \/ b % 2 = 1 THEN 1 ELSE 0) + 2 * BitOr(a \div 2, b \div 2)

LineBit(k) == 2 ^ (k - 1)

\* ------------------------------------------------------------- messages
Intro == "A loop will be run until all buttons/switches have been pressed."

PressedMsg ==
  << "Button 1 (SW0) Pressed.", "Button 2 (SW1) Pressed.",
     "Button 3 (SW2) Pressed.", "Button 4 (SW3) Pressed." >>

AllMsg == "All Buttons (SW0-SW3) were pressed, at least, once."

\* ----------------------------------------------------------------- Init
Init ==
  /\ edge_capture = 0
  /\ edge_cap_reg = 0
  /\ irq_mask_reg = 0
  /\ isr = "NULL"
  /\ isr_context = "NULL"
  /\ buttons_tested \in StackU8
  /\ last_tested \in StackInt
  /\ pc = "menu"
  /\ hpc = "idle"
  /\ log = << >>
  /\ iter = "running"
  /\ run = 0
  /\ edges = 0
  /\ hctx = "NULL"
  /\ observed = {}
  /\ switch_val = -1
  /\ order = << >>
  /\ last_hw = 0
  /\ unread = 0
  /\ pressed = {}
  /\ ch = 0
  /\ entered = -1

\* ------------------------------------------------------------ environment
\* A button edge on line k: the PIO latches bit k in its edge-capture
\* register, whatever the interrupt mask is.  MaxEdges caps the edges of one
\* invocation's arming and polling phase; edges in the menu and after the
\* loop has been left are not capped.
Capped == pc \notin {"menu", "sub", "L451", "L454", "L570"}

Edge(k) ==
  /\ pc # "exit"
  /\ Capped => edges < MaxEdges
  /\ edge_cap_reg' = BitOr(edge_cap_reg, LineBit(k))
  /\ edges' = IF Capped THEN edges + 1 ELSE edges
  /\ pressed' = IF Capped THEN pressed \cup {k} ELSE pressed
  /\ UNCHANGED <<edge_capture, irq_mask_reg, isr, isr_context,
                 buttons_tested, last_tested, pc, hpc, log, iter, run,
                 hctx, observed, switch_val,
                 order, last_hw, unread,
                 ch, entered>>

\* ---------------------------------------------------------- the handler
\* The PIO raises its IRQ while a latched edge is enabled by the mask; the
\* CPU dispatches it when a handler is registered for the IRQ.
IrqPending == BitAnd(edge_cap_reg, irq_mask_reg) # 0

HandlerEntry ==
  /\ hpc = "idle"
  /\ isr = "handle_button_interrupts"
  /\ IrqPending
  /\ hpc' = "H405"
  /\ hctx' = isr_context
  /\ UNCHANGED <<edge_capture, edge_cap_reg, irq_mask_reg, isr, isr_context,
                 buttons_tested, last_tested, pc, log, iter, run, edges,
                 observed, switch_val,
                 order, last_hw, unread, pressed,
                 ch, entered>>

\* *edge_capture_ptr = IORD_ALTERA_AVALON_PIO_EDGE_CAP(BUTTON_PIO_BASE);
\* The handler writes through its context argument, unconditionally.
\* Variant: the handler accumulates the bits instead of replacing the value.
StoreWrite_or(ctx, store, value) ==
  IF ctx = "&edge_capture" THEN BitOr(store, value) ELSE store

StoreWrite(ctx, store, value) == IF ctx = "&edge_capture" THEN value ELSE store

\* The foreground is between two reads of the store: after the reset at
\* line 492 or the read at line 518, and before the read at line 511.
BetweenReads == {"L498", "L509", "L511"}

HandlerStore ==
  /\ hpc = "H405"
  /\ edge_capture' = StoreWrite(hctx, edge_capture, edge_cap_reg)
  /\ hpc' = "H407"
  /\ last_hw' = edge_cap_reg
  /\ unread' = IF pc \in BetweenReads /\ unread < 2 THEN unread + 1 ELSE unread
  /\ UNCHANGED <<edge_cap_reg, irq_mask_reg, isr, isr_context,
                 buttons_tested, last_tested, pc, log, iter, run, edges,
                 hctx, observed, switch_val,
                 order, pressed,
                 ch, entered>>

\* IOWR_ALTERA_AVALON_PIO_EDGE_CAP(BUTTON_PIO_BASE, 0);
\* Variant: the handler also masks the button interrupts.
HandlerClear_masks ==
  /\ hpc = "H407"
  /\ edge_cap_reg' = 0
  /\ irq_mask_reg' = 0
  /\ hpc' = "H414"
  /\ UNCHANGED <<edge_capture, isr, isr_context,
                 buttons_tested, last_tested, pc, log, iter, run, edges,
                 hctx, observed, switch_val,
                 order, last_hw, unread, pressed,
                 ch, entered>>

HandlerClear ==
  /\ hpc = "H407"
  /\ edge_cap_reg' = 0
  /\ hpc' = "H414"
  /\ UNCHANGED <<edge_capture, irq_mask_reg, isr, isr_context,
                 buttons_tested, last_tested, pc, log, iter, run, edges,
                 hctx, observed, switch_val,
                 order, last_hw, unread, pressed,
                 ch, entered>>

\* The read that delays ISR exit; its value is discarded.
HandlerReturn ==
  /\ hpc = "H414"
  /\ hpc' = "idle"
  /\ UNCHANGED <<edge_capture, edge_cap_reg, irq_mask_reg, isr, isr_context,
                 buttons_tested, last_tested, pc, log, iter, run, edges,
                 hctx, observed, switch_val,
                 order, last_hw, unread, pressed,
                 ch, entered>>

handle_button_interrupts ==
  HandlerEntry \/ HandlerStore \/ HandlerClear \/ HandlerReturn

\* ------------------------------------------------------- the foreground
\* Character codes of the keys of the model: NUL, Escape, 'Q', 'c', 'd',
\* 'q' and 'x' (a key no menu item has).  The items a, b, e, f of the top
\* menu and their tests are left out.
Ord == [NUL |-> 0, ESC |-> 27, Q |-> 81, c |-> 99, d |-> 100, q |-> 113,
        x |-> 120]

Keys == {Ord.NUL, Ord.ESC, Ord.Q, Ord.c, Ord.d, Ord.q, Ord.x}

\* sscanf(entry, "%c\n", &ch): the first byte of the entry is stored in ch;
\* when that byte is NUL the string is empty, nothing is stored (sscanf
\* returns EOF) and the static ch keeps the value of the previous call.
Scanned(key, old) == IF key = Ord.NUL THEN old ELSE key

\* if (ch >= 'A' && ch <= 'Z') ch += 'a' - 'A';   (taken also after EOF,
\* which is not 0)
Folded(c) == IF c >= 65 /\ c <= 90 THEN c + 32 ELSE c

\* if (ch == 27) ch = 'q';
EscMapped(c) == IF c = Ord.ESC THEN Ord.q ELSE c

\* MenuEnd: the value returned for an entry that starts with `key`, the
\* static ch holding `old` from the previous call.
MenuEnd(key, old) == EscMapped(Folded(Scanned(key, old)))

\* TopMenu dispatches 'c' to TestButtons; its locals hold whatever the
\* stack holds.
CallTestButtons ==
  /\ pc = "menu"
  /\ hpc = "idle"
  /\ run < MaxRuns
  /\ \E key \in Keys : MenuEnd(key, ch) = Ord.c
  /\ ch' = Ord.c
  /\ run' = run + 1
  /\ buttons_tested' \in StackU8
  /\ last_tested' \in StackInt
  /\ log' = << >>
  /\ edges' = 0
  /\ iter' = "running"
  /\ pc' = "L425"
  /\ observed' = {}
  /\ switch_val' = -1
  /\ order' = << >>
  /\ pressed' = {}
  /\ UNCHANGED <<edge_capture, edge_cap_reg, irq_mask_reg, isr, isr_context,
                 hpc, hctx,
                 last_hw, unread,
                 entered>>

\* The variables the menus do not touch.
TestState ==
  <<edge_capture, edge_cap_reg, irq_mask_reg, isr, isr_context,
    buttons_tested, last_tested, hpc, log, iter, run, edges,
    hctx, observed, switch_val, order, last_hw, unread, pressed>>

\* TopMenu: MenuCase('d', DoSevenSegMenu).
EnterSubMenu ==
  /\ pc = "menu"
  /\ hpc = "idle"
  /\ \E key \in Keys : MenuEnd(key, ch) = Ord.d
  /\ ch' = Ord.d
  /\ pc' = "sub"
  /\ UNCHANGED <<TestState, entered>>

\* DoSevenSegMenu: one turn of its loop.  On 'q' it returns to TopMenu,
\* whose own ch is 'd', so TopMenu shows its menu again; on any other value
\* ('a' and 'b' run a display test and return) the submenu is shown again.
DoSevenSegMenu ==
  /\ pc = "sub"
  /\ hpc = "idle"
  /\ \E key \in Keys :
       /\ ch' = MenuEnd(key, ch)
       /\ pc' = IF MenuEnd(key, ch) = Ord.q THEN "menu" ELSE "sub"
  /\ UNCHANGED <<TestState, entered>>

\* TopMenu: default: printf(" -ERROR: %c is an invalid entry ...").
InvalidEntry ==
  /\ pc = "menu"
  /\ hpc = "idle"
  /\ \E key \in Keys :
       /\ MenuEnd(key, ch) \notin {Ord.c, Ord.d, Ord.q}
       /\ ch' = MenuEnd(key, ch)
  /\ UNCHANGED <<TestState, pc, entered>>

\* TopMenu: case 'q', if (ch == 'q') break, return(ch); main prints
\* "Exiting from Board Diagnostics." and returns.
Quit ==
  /\ pc = "menu"
  /\ hpc = "idle"
  /\ \E key \in Keys :
       /\ MenuEnd(key, ch) = Ord.q
       /\ entered' = key
  /\ ch' = Ord.q
  /\ pc' = "exit"
  /\ UNCHANGED TestState

TopMenu == EnterSubMenu \/ DoSevenSegMenu \/ InvalidEntry \/ Quit

\* init_button_pio: IOWR_ALTERA_AVALON_PIO_IRQ_MASK(BUTTON_PIO_BASE, 0xf);
InitIrqMask ==
  /\ pc = "L425"
  /\ hpc = "idle"
  /\ irq_mask_reg' = IrqMaskAll
  /\ pc' = "L427"
  /\ UNCHANGED <<edge_capture, edge_cap_reg, isr, isr_context,
                 buttons_tested, last_tested, hpc, log, iter, run, edges,
                 hctx, observed, switch_val,
                 order, last_hw, unread, pressed,
                 ch, entered>>

\* init_button_pio: IOWR_ALTERA_AVALON_PIO_EDGE_CAP(BUTTON_PIO_BASE, 0x0);
\* Variant: the write to the edge-capture register is left out.
ClearedEdgeCap_kept(reg) == reg

ClearedEdgeCap(reg) == 0

InitEdgeCap ==
  /\ pc = "L427"
  /\ hpc = "idle"
  /\ edge_cap_reg' = ClearedEdgeCap(edge_cap_reg)
  /\ pc' = "L438"
  /\ UNCHANGED <<edge_capture, irq_mask_reg, isr, isr_context,
                 buttons_tested, last_tested, hpc, log, iter, run, edges,
                 hctx, observed, switch_val,
                 order, last_hw, unread, pressed,
                 ch, entered>>

\* init_button_pio: alt_ic_isr_register / alt_irq_register with the handler
\* and &edge_capture.
InitRegister ==
  /\ pc = "L438"
  /\ hpc = "idle"
  /\ isr' = "handle_button_interrupts"
  /\ isr_context' = "&edge_capture"
  /\ pc' = "L485"
  /\ UNCHANGED <<edge_capture, edge_cap_reg, irq_mask_reg,
                 buttons_tested, last_tested, hpc, log, iter, run, edges,
                 hctx, observed, switch_val,
                 order, last_hw, unread, pressed,
                 ch, entered>>

\* buttons_tested = 0x0; all_tested = 0xf;
ResetTested ==
  /\ pc = "L485"
  /\ hpc = "idle"
  /\ buttons_tested' = 0
  /\ pc' = "L492"
  /\ UNCHANGED <<edge_capture, edge_cap_reg, irq_mask_reg, isr, isr_context,
                 last_tested, hpc, log, iter, run, edges,
                 hctx, observed, switch_val,
                 order, last_hw, unread, pressed,
                 ch, entered>>

\* edge_capture = 0;
\* Variant: the store keeps the value the previous run left in it.
ResetCapture_skipped ==
  /\ pc = "L492"
  /\ hpc = "idle"
  /\ pc' = "L498"
  /\ unread' = 0
  /\ UNCHANGED <<edge_capture, edge_cap_reg, irq_mask_reg, isr, isr_context,
                 buttons_tested, last_tested, hpc, log, iter, run, edges,
                 hctx, observed, switch_val,
                 order, last_hw, pressed,
                 ch, entered>>

ResetCapture ==
  /\ pc = "L492"
  /\ hpc = "idle"
  /\ edge_capture' = 0
  /\ pc' = "L498"
  /\ last_hw' = 0
  /\ unread' = 0
  /\ UNCHANGED <<edge_cap_reg, irq_mask_reg, isr, isr_context,
                 buttons_tested, last_tested, hpc, log, iter, run, edges,
                 hctx, observed, switch_val,
                 order, pressed,
                 ch, entered>>

\* last_tested = 0xffff; and the two introductory printf calls.
ResetLast ==
  /\ pc = "L498"
  /\ hpc = "idle"
  /\ last_tested' = Sentinel
  /\ log' = Append(log, Intro)
  /\ iter' = "none"
  /\ pc' = "L509"
  /\ UNCHANGED <<edge_capture, edge_cap_reg, irq_mask_reg, isr, isr_context,
                 buttons_tested, hpc, run, edges,
                 hctx, observed, switch_val,
                 order, last_hw, unread, pressed,
                 ch, entered>>

\* while ( buttons_tested != all_tested )
\* Variant: the loop compares with 0xff instead of all_tested.
LoopCond_ff(bt) == bt # 255

\* Variant: the loop ends as soon as button 4 has been credited.
LoopCond_button4(bt) == BitAnd(bt, 8) = 0

LoopCond(bt) == bt # all_tested

LoopTest ==
  /\ pc = "L509"
  /\ hpc = "idle"
  /\ pc' = IF LoopCond(buttons_tested) THEN "L511" ELSE "L451"
  /\ iter' = "running"
  /\ switch_val' = -1
  /\ UNCHANGED <<edge_capture, edge_cap_reg, irq_mask_reg, isr, isr_context,
                 buttons_tested, last_tested, hpc, log, run, edges,
                 hctx, observed,
                 order, last_hw, unread, pressed,
                 ch, entered>>

\* if (last_tested == edge_capture) continue;
\* Variant: the comparison never suppresses an iteration.
Unchanged_never(last, store) == FALSE

Unchanged(last, store) == last = store

Compare ==
  /\ pc = "L511"
  /\ hpc = "idle"
  /\ pc' = IF Unchanged(last_tested, edge_capture) THEN "L509" ELSE "L517"
  /\ iter' = IF Unchanged(last_tested, edge_capture) THEN "suppressed" ELSE iter
  /\ unread' = 0
  /\ UNCHANGED <<edge_capture, edge_cap_reg, irq_mask_reg, isr, isr_context,
                 buttons_tested, last_tested, hpc, log, run, edges,
                 hctx, observed, switch_val,
                 order, last_hw, pressed,
                 ch, entered>>

\* last_tested = edge_capture;
Record ==
  /\ pc = "L517"
  /\ hpc = "idle"
  /\ last_tested' = edge_capture
  /\ pc' = "L518"
  /\ unread' = 0
  /\ UNCHANGED <<edge_capture, edge_cap_reg, irq_mask_reg, isr, isr_context,
                 buttons_tested, hpc, log, iter, run, edges,
                 hctx, observed, switch_val,
                 order, last_hw, pressed,
                 ch, entered>>

\* switch (edge_capture): the case labels 0x1, 0x2, 0x4, 0x8.
\* Variant: the switch tests the lowest set bit instead of the whole value.
CaseOf_lowbit(v) ==
  IF \E k \in Lines : BitAnd(v, LineBit(k)) # 0
  THEN CHOOSE k \in Lines :
         /\ BitAnd(v, LineBit(k)) # 0
         /\ \A j \in Lines : BitAnd(v, LineBit(j)) # 0 => k <= j
  ELSE 0

CaseOf(v) == IF \E k \in Lines : v = LineBit(k)
             THEN CHOOSE k \in Lines : v = LineBit(k)
             ELSE 0

\* if (buttons_tested & bit) continue; else printf, buttons_tested |= bit
\* Variant: the "already tested" check is left out.
Credits_always(k, bt) == k # 0

Credits(k, bt) == k # 0 /\ BitAnd(bt, LineBit(k)) = 0

\* buttons_tested = buttons_tested | bit;   (alt_u8)
\* Variant: the bit is assigned instead of or-ed in.
NewTested_assign(bt, k) == LineBit(k)

\* Variant: the bit above the line's bit is or-ed in with it.
NewTested_pair(bt, k) == BitOr(bt, 3 * LineBit(k)) % 256

NewTested(bt, k) == BitOr(bt, LineBit(k)) % 256

SingleBits == {LineBit(k) : k \in Lines}

InSeq(q, x) == \E i \in DOMAIN q : q[i] = x

\* printf("\nButton K (SWk-1) Pressed.\n"): the text goes to the end of
\* the output.
\* Variant: the text is put in front of what was printed before.
Notify_front(lg, k) == <<PressedMsg[k]>> \o lg

Notify(lg, k) == Append(lg, PressedMsg[k])

Dispatch ==
  /\ pc = "L518"
  /\ hpc = "idle"
  /\ LET k == CaseOf(edge_capture) IN
       IF Credits(k, buttons_tested)
       THEN /\ log' = Notify(log, k)
            /\ buttons_tested' = NewTested(buttons_tested, k)
       ELSE UNCHANGED <<log, buttons_tested>>
  /\ switch_val' = edge_capture
  /\ observed' = observed \cup ({edge_capture} \cap SingleBits)
  /\ iter' = "dispatched"
  /\ pc' = "L509"
  /\ unread' = 0
  /\ order' = IF CaseOf(edge_capture) # 0 /\ ~InSeq(order, CaseOf(edge_capture))
              THEN Append(order, CaseOf(edge_capture)) ELSE order
  /\ UNCHANGED <<edge_capture, edge_cap_reg, irq_mask_reg, isr, isr_context,
                 last_tested, hpc, run, edges, hctx,
                 last_hw, pressed,
                 ch, entered>>

\* disable_button_pio: IOWR_ALTERA_AVALON_PIO_IRQ_MASK(BUTTON_PIO_BASE, 0x0);
DisableIrqMask ==
  /\ pc = "L451"
  /\ hpc = "idle"
  /\ irq_mask_reg' = 0
  /\ pc' = "L454"
  /\ UNCHANGED <<edge_capture, edge_cap_reg, isr, isr_context,
                 buttons_tested, last_tested, hpc, log, iter, run, edges,
                 hctx, observed, switch_val,
                 order, last_hw, unread, pressed,
                 ch, entered>>

\* Variant: the handler is left registered.
Unregister_skipped ==
  /\ pc = "L454"
  /\ hpc = "idle"
  /\ pc' = "L570"
  /\ UNCHANGED <<edge_capture, edge_cap_reg, irq_mask_reg, isr, isr_context,
                 buttons_tested, last_tested, hpc, log, iter, run, edges,
                 hctx, observed, switch_val,
                 order, last_hw, unread, pressed,
                 ch, entered>>

\* disable_button_pio: register a null handler.
Unregister ==
  /\ pc = "L454"
  /\ hpc = "idle"
  /\ isr' = "NULL"
  /\ isr_context' = "NULL"
  /\ pc' = "L570"
  /\ UNCHANGED <<edge_capture, edge_cap_reg, irq_mask_reg,
                 buttons_tested, last_tested, hpc, log, iter, run, edges,
                 hctx, observed, switch_val,
                 order, last_hw, unread, pressed,
                 ch, entered>>

\* printf("All Buttons ..."); usleep; return to the menu.
\* Variant: the completion message is printed twice.
Finish_twice ==
  /\ pc = "L570"
  /\ hpc = "idle"
  /\ log' = log \o <<AllMsg, AllMsg>>
  /\ pc' = "menu"
  /\ UNCHANGED <<edge_capture, edge_cap_reg, irq_mask_reg, isr, isr_context,
                 buttons_tested, last_tested, hpc, iter, run, edges,
                 hctx, observed, switch_val,
                 order, last_hw, unread, pressed,
                 ch, entered>>

Finish ==
  /\ pc = "L570"
  /\ hpc = "idle"
  /\ log' = Append(log, AllMsg)
  /\ pc' = "menu"
  /\ UNCHANGED <<edge_capture, edge_cap_reg, irq_mask_reg, isr, isr_context,
                 buttons_tested, last_tested, hpc, iter, run, edges,
                 hctx, observed, switch_val,
                 order, last_hw, unread, pressed,
                 ch, entered>>

init_button_pio == InitIrqMask \/ InitEdgeCap \/ InitRegister

disable_button_pio == DisableIrqMask \/ Unregister

TestButtons ==
  \/ CallTestButtons
  \/ init_button_pio
  \/ ResetTested \/ ResetCapture \/ ResetLast
  \/ LoopTest \/ Compare \/ Record \/ Dispatch
  \/ disable_button_pio
  \/ Finish

Next ==
  \/ \E k \in Lines : Edge(k)
  \/ handle_button_interrupts
  \/ TestButtons

Spec == Init /\ [][Next]_vars

\* The foreground keeps running and a dispatched interrupt is handled; button
\* edges are up to the operator.
FairSpec ==
  Spec /\ WF_vars(TestButtons) /\ WF_vars(handle_button_interrupts)

\* The teardown-safety scenario: once disable_button_pio has completed, the
\* handler is entered once more with the context it had been registered
\* with (a late interrupt).
LateInterrupt ==
  /\ pc \in {"L570", "menu"}
  /\ run >= 1
  /\ isr = "NULL"
  /\ hpc = "idle"
  /\ hpc' = "H405"
  /\ hctx' = "&edge_capture"
  /\ UNCHANGED <<edge_capture, edge_cap_reg, irq_mask_reg, isr, isr_context,
                 buttons_tested, last_tested, pc, log, iter, run, edges,
                 observed, switch_val,
                 order, last_hw, unread, pressed,
                 ch, entered>>

NextLate == Next \/ LateInterrupt

SpecLate == Init /\ [][NextLate]_vars

\* alt_ic_isr_register returns a status (negative when the interrupt id or
\* controller cannot be used); init_button_pio is void and drops it, and
\* TestButtons goes on to line 485 whatever the status was.  This step is
\* the registration that fails: no handler is installed.
InitRegisterFail ==
  /\ pc = "L438"
  /\ hpc = "idle"
  /\ pc' = "L485"
  /\ UNCHANGED <<edge_capture, edge_cap_reg, irq_mask_reg, isr, isr_context,
                 buttons_tested, last_tested, hpc, log, iter, run, edges,
                 hctx, observed, switch_val,
                 order, last_hw, unread, pressed,
                 ch, entered>>

NextFail == Next \/ InitRegisterFail

SpecFail == Init /\ [][NextFail]_vars

\* The program with its menus: besides 'c', the operator's other keys.
NextMenu == Next \/ TopMenu

SpecMenu == Init /\ [][NextMenu]_vars

\* ------------------------------------------------------------ properties
\* Positions of TestButtons.
LoopPcs == {"L509", "L511", "L517", "L518"}
DonePcs == {"L451", "L454", "L570"}
\* Positions at which buttons_tested has been initialised.
TestedPcs == {"L492", "L498"} \cup LoopPcs \cup DonePcs

HasBit(v, k) == (v \div LineBit(k)) % 2 = 1

Count(msg) == Cardinality({i \in DOMAIN log : log[i] = msg})

\* The foreground takes a step.
PollStep == pc' # pc

\* C1: once a poll iteration has dispatched on each of 0x1, 0x2, 0x4, 0x8 (in
\* whatever order), buttons_tested is 0xF and the loop body is not entered
\* again: the foreground is at the loop test or past the loop, and its step
\* from the loop test leaves the loop.
AllObserved == pc \in TestedPcs /\ observed = SingleBits

C1_Completion ==
  /\ [](AllObserved =>
         (buttons_tested = all_tested /\ pc \in {"L509"} \cup DonePcs))
  /\ [][(AllObserved /\ pc = "L509" /\ PollStep) => pc' = "L451"]_vars

\* A run that got four edges while polling, credited in the order 3, 1, 4, 2,
\* has left the loop.
C1_Witness ==
  /\ pc = "L451"
  /\ edges = 4
  /\ observed = SingleBits
  /\ log = <<Intro, PressedMsg[3], PressedMsg[1], PressedMsg[4], PressedMsg[2]>>

\* C2: the loop is left only with buttons_tested = 0xF, and while a line bit
\* is missing every step keeps the foreground inside the loop.
C2_OnlyExit ==
  /\ [](pc \in DonePcs => buttons_tested = all_tested)
  /\ [][(pc \in LoopPcs /\ buttons_tested # all_tested) => pc' \in LoopPcs]_vars

\* The second run has left its loop, line 3 being the last one credited.
C2_Witness ==
  /\ pc = "L451"
  /\ run = 2
  /\ buttons_tested = all_tested
  /\ log[5] = PressedMsg[3]

C4_Monotonic ==
  [][(pc \in TestedPcs /\ buttons_tested' # buttons_tested) =>
       ( BitAnd(buttons_tested, buttons_tested') = buttons_tested
         /\ buttons_tested # all_tested )]_vars

\* All four lines are credited, a further edge (lines 1 and 2) was latched
\* before disable_button_pio and the handler has stored it.
C4_Witness ==
  /\ buttons_tested = all_tested
  /\ pc = "L451"
  /\ hpc = "H407"
  /\ edge_capture = 3

\* C5: a foreground step that reads a store value other than 0x1, 0x2, 0x4,
\* 0x8 prints nothing and leaves buttons_tested unchanged.
C5_NonSingleIgnored ==
  [][(pc \in LoopPcs /\ PollStep /\ edge_capture \notin SingleBits)
       => UNCHANGED <<log, buttons_tested>>]_vars

\* The switch has dispatched on 0x3 and neither line 1 nor line 2 is credited.
C5_Witness ==
  /\ pc = "L509"
  /\ switch_val = 3
  /\ ~HasBit(buttons_tested, 1)
  /\ ~HasBit(buttons_tested, 2)

C7_LateInterruptIgnored ==
  [][(isr = "NULL" /\ hpc # "idle") => edge_capture' = edge_capture]_vars

\* C8: a line whose edge is latched in the edge-capture register while the
\* poll loop runs is eventually credited in buttons_tested.
C8_EventuallyCredited ==
  \A k \in Lines :
    (pc \in LoopPcs /\ HasBit(edge_cap_reg, k))
      ~> (pc \in TestedPcs /\ HasBit(buttons_tested, k))

\* C9: when the first iteration of a run begins and no edge has been latched
\* since TestButtons was entered, the store, buttons_tested and the
\* edge-capture register are 0, last_tested is the sentinel, all four
\* interrupts are enabled and the handler is registered with &edge_capture.
C9_Armed ==
  (pc = "L509" /\ iter = "none" /\ edges = 0) =>
    /\ edge_capture = 0
    /\ buttons_tested = 0
    /\ last_tested = Sentinel
    /\ irq_mask_reg = IrqMaskAll
    /\ edge_cap_reg = 0
    /\ isr = "handle_button_interrupts"
    /\ isr_context = "&edge_capture"

\* The second run is about to start its first iteration.
C9_Witness == pc = "L509" /\ iter = "none" /\ edges = 0 /\ run = 2

\* C10: outside a run (in the menu, or after disable_button_pio) no handler
\* is registered, and after a completed run the interrupt mask is 0; a
\* handler is registered only from init_button_pio's registration to
\* disable_button_pio's unregistration.
C10_NoStaleHandler ==
  /\ pc \in {"menu", "L570"} => (isr = "NULL" /\ isr_context = "NULL")
  /\ (pc \in {"menu", "L570"} /\ run >= 1) => irq_mask_reg = 0
  /\ isr # "NULL" => pc \in {"L485", "L492", "L498", "L451", "L454"} \cup LoopPcs

\* Back in the menu after the second completed run.
C10_Witness == pc = "menu" /\ run = 2 /\ Len(log) = 6

\* C11: when arming fails (no handler could be registered) the test state
\* machine is not entered: no poll iteration (lines 511-518) is executed
\* in an invocation whose handler registration did not succeed.
C11_NoPollAfterFailedArm ==
  pc \in {"L511", "L517", "L518"} => isr = "handle_button_interrupts"

IsPressedMsg(m) == \E k \in Lines : m = PressedMsg[k]

C13_OneSnapshot ==
  (pc = "L509" /\ iter = "dispatched") => last_tested = switch_val

\* C14: from the registration of the handler (line 438) until it is
\* removed, edge_capture is written only by the handler: every change of
\* its value while a handler is registered is the handler's store.
C14_HandlerOnlyWriter ==
  [][(isr = "handle_button_interrupts" /\ edge_capture' # edge_capture)
       => hpc = "H405"]_vars

\* The part of a run after edge_capture = 0 at line 492.
AfterResetPcs == {"L498"} \cup LoopPcs \cup DonePcs

\* C15: the store is one last-write-wins cell: after the reset of a run
\* its value is the register value read by the most recent handler
\* invocation since that reset, or 0 when none has run since; two handler
\* invocations between two poll reads leave only the later value.
C15_LastWriteWins ==
  (pc \in AfterResetPcs) => edge_capture = last_hw

\* After the first iteration read 0, two handler invocations ran before the
\* next read: the first read line 1, the second line 2; the store holds 2.
C15_Witness ==
  /\ pc = "L511"
  /\ hpc = "idle"
  /\ last_tested = 0
  /\ unread = 2
  /\ edges = 2
  /\ pressed = {1, 2}
  /\ edge_capture = 2

\* A step of the interrupt handler: its position changes.
HandlerStep == hpc' # hpc

\* C16: a handler invocation stores the value of the edge-capture register
\* in edge_capture (line 405), then writes 0 to the register (line 407),
\* and changes nothing else: buttons_tested, last_tested, the interrupt
\* mask, the registration and the output are the same after every handler
\* step, and the store and the register change only at those two lines.
C16_HandlerEffect ==
  [][HandlerStep =>
       /\ UNCHANGED <<buttons_tested, last_tested, irq_mask_reg, isr,
                      isr_context, log, pc>>
       /\ (hpc = "H405") => (edge_capture' = edge_cap_reg /\ UNCHANGED edge_cap_reg)
       /\ (hpc = "H407") => (edge_cap_reg' = 0 /\ UNCHANGED edge_capture)
       /\ (hpc \in {"idle", "H414"}) => UNCHANGED <<edge_capture, edge_cap_reg>>]_vars

\* A handler invocation has stored the register value 4 over the older
\* store value 1 and has cleared the register, in the middle of a run in
\* which button 1 is already credited.
C16_Witness ==
  /\ hpc = "H414"
  /\ pc = "L511"
  /\ edge_capture = 4
  /\ last_tested = 1
  /\ edge_cap_reg = 0
  /\ buttons_tested = 1
  /\ irq_mask_reg = IrqMaskAll

\* A step that takes the button interrupts away: the mask goes to 0 or the
\* handler registration is removed.
DisarmStep ==
  \/ irq_mask_reg # 0 /\ irq_mask_reg' = 0
  \/ isr # "NULL" /\ isr' = "NULL"

\* C17: the interrupts are masked and the handler removed only once
\* buttons_tested is 0xF and the loop has been left; the "All Buttons"
\* message is printed exactly once per run, as the last output, after the
\* four "Button K Pressed" lines and after mask and handler are gone, and
\* not before the run returns.
C17_TeardownAfterCompletion ==
  /\ [][DisarmStep => (buttons_tested = all_tested /\ pc \in DonePcs)]_vars
  /\ []((pc = "menu" /\ run >= 1) <=> Count(AllMsg) = 1)
  /\ [](Count(AllMsg) <= 1)
  /\ [](Count(AllMsg) = 1 =>
          /\ irq_mask_reg = 0
          /\ isr = "NULL"
          /\ Len(log) = NumLines + 2
          /\ log[Len(log)] = AllMsg
          /\ \A k \in Lines : Count(PressedMsg[k]) = 1)

\* A first run has returned: one completion message, the last of six
\* lines, with the interrupts masked and an edge latched since.
C17_Witness ==
  /\ pc = "menu"
  /\ run = 1
  /\ log[6] = AllMsg
  /\ Count(AllMsg) = 1
  /\ irq_mask_reg = 0
  /\ isr = "NULL"
  /\ edge_cap_reg = 5

\* C18: the start value 0xffff of last_tested is none of the values
\* edge_capture holds during a run, so the comparison at line 511 never
\* suppresses the first iteration of a run: that iteration goes on to line
\* 517 and records the value of the store.
C18_SentinelDistinct ==
  /\ []((pc \in AfterResetPcs) => edge_capture # Sentinel)
  /\ []((pc = "L509" /\ iter = "suppressed") => last_tested # Sentinel)
  /\ [][(pc = "L511" /\ last_tested = Sentinel /\ pc' # pc) => pc' = "L517"]_vars
  /\ [][(pc = "L517" /\ pc' # pc) => last_tested' = edge_capture]_vars

\* The first iteration of a second run has passed the comparison with the
\* store at 0, the value it will record.
C18_Witness ==
  /\ pc = "L517"
  /\ hpc = "idle"
  /\ run = 2
  /\ last_tested = Sentinel
  /\ edge_capture = 0

\* C19: nothing is carried over from an earlier invocation: in every run
\* a bit K of buttons_tested is set, and "Button K Pressed" printed, only
\* when an edge on line K was latched after this invocation began arming
\* (pressed holds exactly those lines).
C19_NoCarryOver ==
  /\ (pc \in TestedPcs) =>
        \A k \in Lines : HasBit(buttons_tested, k) => k \in pressed
  /\ \A k \in Lines : InSeq(log, PressedMsg[k]) => k \in pressed

\* A second run, which follows a run that credited all four lines and left
\* its last value in the store, has credited line 2 only, the one line
\* pressed since it began arming.
C19_Witness ==
  /\ run = 2
  /\ pc = "L509"
  /\ pressed = {2}
  /\ buttons_tested = 2
  /\ log = <<Intro, PressedMsg[2]>>

\* C20: the handler's clear discards no unrecorded edge: every bit set in
\* the edge-capture register when the handler writes 0 to it (line 407) is
\* in the value this invocation stored in edge_capture (line 405).
C20_ClearLosesNothing ==
  [][(hpc = "H407" /\ hpc' = "H414")
       => BitAnd(edge_cap_reg, edge_capture) = edge_cap_reg]_vars

\* C21: from its initialisation at line 485 on, buttons_tested has no bit
\* outside 0xF; a step that changes it is the switch of one iteration
\* (line 518) and adds exactly one line bit that was not set; so when the
\* loop has been left, four iterations have dispatched on four distinct
\* single-line values.  (Before line 485 the variable is an uninitialised
\* local that nothing reads.)
C21_WithinCompletionSet ==
  /\ []((pc \in TestedPcs) => buttons_tested \in 0..all_tested)
  /\ [][(pc \in TestedPcs /\ buttons_tested' # buttons_tested) =>
          /\ pc = "L518"
          /\ \E k \in Lines :
               /\ ~HasBit(buttons_tested, k)
               /\ buttons_tested' = buttons_tested + LineBit(k)]_vars
  /\ []((pc \in DonePcs) =>
          /\ Len(order) = NumLines
          /\ {order[i] : i \in DOMAIN order} = Lines)

\* The fourth crediting iteration has just set the last missing bit, that
\* of line 4, after lines 1, 2 and 3.
C21_Witness ==
  /\ pc = "L509"
  /\ iter = "dispatched"
  /\ switch_val = 8
  /\ order = <<1, 2, 3, 4>>
  /\ buttons_tested = all_tested

\* C22: TopMenu returns, and main exits, only when the key entered at its
\* prompt is 'q', 'Q' or Escape; every other key leaves the program in the
\* menu loop.
C22_ExitOnlyOnQuitKey ==
  pc = "exit" => entered \in {Ord.q, Ord.Q, Ord.ESC}

====
